---- MODULE Spec2Model ----
(***************************************************************************)
(* GPUTileConfigSpace of pyvlova/autotune/gpu_tile.py: the space of legal  *)
(* GPU tile-size tuples, its divisor-block tables, its cardinality and the *)
(* index <-> tuple maps rank and rev.                                      *)
(*                                                                         *)
(* Python lists are functions over 0..len-1, dicts are functions over      *)
(* their key set.  A call returns a record: err = "" and val on a normal   *)
(* return, err = the exception's name when the call raises.                *)
(***************************************************************************)
EXTENDS Integers, FiniteSets, TLC

\* Largest budget n and largest per-dimension bound the constructor is given,
\* longest bound list, and how far outside [0, size) an index argument goes.
MaxN == 8
MaxB == 3
MaxDim == 3
MaxOver == 2

VARIABLES
    self,   \* the GPUTileConfigSpace object: n, b, dim, a, l, m, ra, ft, gt
    loc,    \* locals of the running __init__: cur, i, j, k
    pc,     \* "enum" | "alloc" | "ft" | "gt" | "ready" | "returned" | "raised"
    call,   \* the call in progress or just returned: op and its argument
    ret     \* what the call returned or raised

vars == <<self, loc, pc, call, ret>>

----------------------------------------------------------------------------
\* Python values

Ok(v) == [err |-> "", val |-> v]

Raise(e) == [err |-> e]

NoCall == [op |-> "none"]

NoRet == [err |-> "none"]

min(x, y) == IF x <= y THEN x ELSE y

len(xs) == Cardinality(DOMAIN xs)

empty == [p \in {} |-> 0]

append(xs, v) == [p \in 0..len(xs) |-> IF p < len(xs) THEN xs[p] ELSE v]

\* Python's x // y for y # 0: the floor of the quotient, also for y < 0.
FloorDiv(x, y) == IF y > 0 THEN x \div y ELSE (0 - x) \div (0 - y)

----------------------------------------------------------------------------
\* The counting functions, over the tables of self

RECURSIVE f(_, _), _f(_, _), _f_while(_, _, _, _, _)

RECURSIVE _f_while_unbounded(_, _, _, _, _)

\* _f_while with the per-dimension bound bd left out of the block's count
_f_while_unbounded(k, n, bd, res, cur) ==
    IF ~(cur <= n) THEN res
    ELSE LET r == n \div cur
             l == n \div (cur + 1)
             res2 == IF r - l >= 1 THEN res + (r - l) * f(k - 1, cur) ELSE res
         IN  IF cur >= n THEN res2
             ELSE _f_while_unbounded(k, n, bd, res2, n \div (n \div (cur + 1)))

\* the while loop of _f; res and cur are its locals
_f_while(k, n, bd, res, cur) ==
    IF ~(cur <= n) THEN res
    ELSE LET r == min(n \div cur, bd)
             l == n \div (cur + 1)
             res2 == IF r - l >= 1 THEN res + (r - l) * f(k - 1, cur) ELSE res
         IN  IF cur >= n THEN res2
             ELSE _f_while(k, n, bd, res2, n \div (n \div (cur + 1)))

_f(k, n) ==
    IF k < 0 \/ n <= 0 THEN 0
    ELSE IF k <= 0 THEN min(n, self.b[0])
    ELSE _f_while(k, n, self.b[k], 0, 1)

f(k, n) ==
    IF 0 <= k /\ k < self.dim /\ n \in DOMAIN self.ra
    THEN self.ft[k][self.ra[n]]
    ELSE _f(k, n)

RECURSIVE bf(_, _), bf_for(_, _, _, _)

\* the for loop of bf over i in range(1, min(b[k], n) + 1)
bf_for(k, n, i, res) ==
    IF i >= min(self.b[k], n) + 1 THEN res
    ELSE bf_for(k, n, i + 1, res + bf(k - 1, n \div i))

bf(k, n) ==
    IF k < 0 \/ n <= 0 THEN 0
    ELSE IF k <= 0 THEN min(n, self.b[0])
    ELSE bf_for(k, n, 1, 0)

\* g with the operands of r = x - q swapped
g_swapped(k, n, x) ==
    IF n \notin DOMAIN self.ra THEN Raise("AssertionError")
    ELSE IF k < 0 \/ n <= 0 \/ x <= 0 THEN Ok(0)
    ELSE IF k <= 0 THEN Ok(min(min(n, self.b[0]), x))
    ELSE IF x <= 1 THEN Ok(f(k - 1, n))
    ELSE LET q == n \div (n \div x + 1)
             r == q - x
         IN  IF q \notin DOMAIN self.ra THEN Raise("KeyError")
             ELSE Ok(self.gt[k][self.ra[n]][self.ra[q]] + r * f(k - 1, n \div x))

g(k, n, x) ==
    IF n \notin DOMAIN self.ra THEN Raise("AssertionError")
    ELSE IF k < 0 \/ n <= 0 \/ x <= 0 THEN Ok(0)
    ELSE IF k <= 0 THEN Ok(min(min(n, self.b[0]), x))
    ELSE IF x <= 1 THEN Ok(f(k - 1, n))
    ELSE LET q == n \div (n \div x + 1)
             r == x - q
         IN  IF q \notin DOMAIN self.ra THEN Raise("KeyError")
             ELSE Ok(self.gt[k][self.ra[n]][self.ra[q]] + r * f(k - 1, n \div x))

size == f(self.dim - 1, self.n)

\* len(self): the builtin rejects a negative __len__
__len__ == IF size < 0 THEN Raise("ValueError") ELSE Ok(size)

----------------------------------------------------------------------------
\* rank and rev

RECURSIVE rank_for(_, _, _, _)

\* the for loop of rank; i runs from dim - 1 down to 0, r and n are its locals
rank_for(x, i, r, n) ==
    IF i < 0 THEN Ok(r)
    ELSE LET gv == g(i, n, x[i] - 1)
         IN  IF gv.err # "" THEN gv
             ELSE IF x[i] = 0 THEN Raise("ZeroDivisionError")
             ELSE rank_for(x, i - 1, r + gv.val, FloorDiv(n, x[i]))

rank(x) ==
    IF len(x) # self.dim THEN Raise("AssertionError")
    ELSE rank_for(x, self.dim - 1, 0, self.n)

RECURSIVE rev_while_strict(_, _, _, _, _)

\* rev_while with the comparison g(i, n, mid - 1) <= c made strict
rev_while_strict(i, n, c, l, r) ==
    IF ~(r - l > 1) THEN Ok(l)
    ELSE LET mid == (l + r) \div 2
             gv == g(i, n, mid - 1)
         IN  IF gv.err # "" THEN gv
             ELSE IF gv.val < c THEN rev_while_strict(i, n, c, mid, r)
             ELSE rev_while_strict(i, n, c, l, mid)

RECURSIVE rev_while(_, _, _, _, _), rev_for(_, _, _, _)

\* the binary search of rev over [l, r)
rev_while(i, n, c, l, r) ==
    IF ~(r - l > 1) THEN Ok(l)
    ELSE LET mid == (l + r) \div 2
             gv == g(i, n, mid - 1)
         IN  IF gv.err # "" THEN gv
             ELSE IF gv.val <= c THEN rev_while(i, n, c, mid, r)
             ELSE rev_while(i, n, c, l, mid)

RECURSIVE rev_for_keep_n(_, _, _, _), rev_for_keep_c(_, _, _, _)

\* rev_for without n //= l: every dimension searches under the whole budget
rev_for_keep_n(res, c, n, i) ==
    IF i < 0 THEN Ok(res)
    ELSE LET lv == rev_while(i, n, c, 1, min(n, self.b[i]) + 1)
         IN  IF lv.err # "" THEN lv
             ELSE LET gv == g(i, n, lv.val - 1)
                  IN  IF gv.err # "" THEN gv
                      ELSE rev_for_keep_n([res EXCEPT ![i] = lv.val], c - gv.val,
                                          n, i - 1)

\* rev_for without c -= g(i, n, l - 1): the count is never reduced
rev_for_keep_c(res, c, n, i) ==
    IF i < 0 THEN Ok(res)
    ELSE LET lv == rev_while(i, n, c, 1, min(n, self.b[i]) + 1)
         IN  IF lv.err # "" THEN lv
             ELSE LET gv == g(i, n, lv.val - 1)
                  IN  IF gv.err # "" THEN gv
                      ELSE rev_for_keep_c([res EXCEPT ![i] = lv.val], c,
                                          n \div lv.val, i - 1)

\* the for loop of rev; i runs from dim - 1 down to 0, res, c and n are its locals
rev_for(res, c, n, i) ==
    IF i < 0 THEN Ok(res)
    ELSE LET lv == rev_while(i, n, c, 1, min(n, self.b[i]) + 1)
         IN  IF lv.err # "" THEN lv
             ELSE LET gv == g(i, n, lv.val - 1)
                  IN  IF gv.err # "" THEN gv
                      ELSE rev_for([res EXCEPT ![i] = lv.val], c - gv.val,
                                   n \div lv.val, i - 1)

rev(x) == rev_for([p \in 0..(self.dim - 1) |-> 0], x, self.n, self.dim - 1)

__getitem__(i) == rev(i)

get(index) ==
    LET total == __len__
    IN  IF total.err # "" THEN total
        ELSE LET tile == __getitem__(index)
             IN  IF tile.err # "" THEN tile
                 ELSE Ok([index |-> index, total |-> total.val, tile |-> tile.val])

__contains__(i) ==
    IF ~(0 <= i) THEN Ok(FALSE)
    ELSE LET total == __len__
         IN  IF total.err # "" THEN total ELSE Ok(i < total.val)

RECURSIVE __iter__for(_, _, _)

\* the generator's loop, run to its end: out is what it has yielded
__iter__for(i, total, out) ==
    IF i >= total THEN Ok(out)
    ELSE LET tile == __getitem__(i)
         IN  IF tile.err # "" THEN [err |-> tile.err, val |-> out]
             ELSE __iter__for(i + 1, total, append(out, tile.val))

__iter__ ==
    LET total == __len__
    IN  IF total.err # "" THEN [err |-> total.err, val |-> empty]
        ELSE __iter__for(0, total.val, empty)

----------------------------------------------------------------------------
\* Construction: __init__(n, b), one step per loop iteration

\* the arguments: budgets and bound lists of legitimate use, and any integers
Budgets == 1..MaxN

Bounds == 1..MaxB

IntBudgets == (0 - 1)..MaxN

IntBounds == (0 - 1)..MaxB

BoundLists(B) == UNION {[0..(d - 1) -> B] : d \in 1..MaxDim}

\* self and the locals when the enumeration loop is reached
Entered(n0, b0) ==
    /\ self = [n |-> n0, b |-> append(b0, n0), dim |-> len(append(b0, n0)) - 1,
               a |-> empty, l |-> empty, m |-> 0, ra |-> empty,
               ft |-> empty, gt |-> empty]
    /\ loc = [cur |-> 1, i |-> 0, j |-> 0, k |-> 0]
    /\ pc = "enum"
    /\ call = [op |-> "__init__", n |-> n0, b |-> b0]
    /\ ret = NoRet

Init == \E n0 \in Budgets : \E b0 \in BoundLists(Bounds) : Entered(n0, b0)

InitInt == \E n0 \in IntBudgets : \E b0 \in BoundLists(IntBounds) : Entered(n0, b0)

\* Enum with the + 1 of the next block start misplaced:
\* cur = n // (n // cur) + 1
EnumMisplacedStep ==
    /\ pc = "enum"
    /\ IF loc.cur <= self.n
       THEN /\ self' = [self EXCEPT
                  !.a = append(self.a, loc.cur),
                  !.l = append(self.l, self.n \div loc.cur - self.n \div (loc.cur + 1))]
            /\ IF loc.cur >= self.n
               THEN pc' = "alloc" /\ loc' = loc
               ELSE pc' = pc
                    /\ loc' = [loc EXCEPT !.cur = self.n \div (self.n \div loc.cur) + 1]
       ELSE pc' = "alloc" /\ UNCHANGED <<self, loc>>
    /\ UNCHANGED <<call, ret>>

\* Enum with the multiplicity taken to the block after the next:
\* l = n // cur - n // (cur + 2)
EnumWideBlock ==
    /\ pc = "enum"
    /\ IF loc.cur <= self.n
       THEN /\ self' = [self EXCEPT
                  !.a = append(self.a, loc.cur),
                  !.l = append(self.l, self.n \div loc.cur - self.n \div (loc.cur + 2))]
            /\ IF loc.cur >= self.n
               THEN pc' = "alloc" /\ loc' = loc
               ELSE pc' = pc
                    /\ loc' = [loc EXCEPT !.cur = self.n \div (self.n \div (loc.cur + 1))]
       ELSE pc' = "alloc" /\ UNCHANGED <<self, loc>>
    /\ UNCHANGED <<call, ret>>

\* the divisor-block enumeration: one test of the loop condition, and one
\* iteration when it holds
Enum ==
    /\ pc = "enum"
    /\ IF loc.cur <= self.n
       THEN /\ self' = [self EXCEPT
                  !.a = append(self.a, loc.cur),
                  !.l = append(self.l, self.n \div loc.cur - self.n \div (loc.cur + 1))]
            /\ IF loc.cur >= self.n
               THEN pc' = "alloc" /\ loc' = loc
               ELSE pc' = pc
                    /\ loc' = [loc EXCEPT !.cur = self.n \div (self.n \div (loc.cur + 1))]
       ELSE pc' = "alloc" /\ UNCHANGED <<self, loc>>
    /\ UNCHANGED <<call, ret>>

\* where the table loops go after the entry at (i, j, k)
NextFt(i, j) ==
    IF j + 1 < self.m THEN [loc EXCEPT !.i = i, !.j = j + 1]
    ELSE [loc EXCEPT !.i = i + 1, !.j = 0]

NextGt(i, j, k) ==
    IF k + 1 < self.m THEN [loc EXCEPT !.k = k + 1]
    ELSE IF j + 1 < self.m THEN [loc EXCEPT !.j = j + 1, !.k = 0]
    ELSE [loc EXCEPT !.i = i + 1, !.j = 0, !.k = 0]

Constructed ==
    /\ pc' = "ready"
    /\ call' = NoCall
    /\ ret' = NoRet

\* m, ra and the zeroed tables
Alloc ==
    /\ pc = "alloc"
    /\ LET mm == len(self.a)
       IN  self' = [self EXCEPT
             !.m = mm,
             !.ra = [v \in {self.a[p] : p \in 0..(mm - 1)} |->
                       CHOOSE p \in 0..(mm - 1) :
                          /\ self.a[p] = v
                          /\ \A p2 \in 0..(mm - 1) : self.a[p2] = v => p2 <= p],
             !.ft = [p \in 0..(self.dim - 1) |-> [p2 \in 0..(mm - 1) |-> 0]],
             !.gt = [p \in 0..(self.dim - 1) |->
                       [p2 \in 0..(mm - 1) |-> [p3 \in 0..(mm - 1) |-> 0]]]]
    /\ loc' = [loc EXCEPT !.i = 0, !.j = 0, !.k = 0]
    /\ IF len(self.a) = 0
       THEN Constructed
       ELSE pc' = "ft" /\ UNCHANGED <<call, ret>>

\* one entry of ft
FtStep ==
    /\ pc = "ft"
    /\ self' = [self EXCEPT !.ft[loc.i][loc.j] = _f(loc.i, self.a[loc.j])]
    /\ IF NextFt(loc.i, loc.j).i < self.dim
       THEN pc' = pc /\ loc' = NextFt(loc.i, loc.j)
       ELSE pc' = "gt" /\ loc' = [loc EXCEPT !.i = 0, !.j = 0, !.k = 0]
    /\ UNCHANGED <<call, ret>>

\* one entry of gt; an exception of g ends the constructor
GtStep ==
    /\ pc = "gt"
    /\ LET gv == g(loc.i, self.a[loc.j], self.a[loc.k])
       IN  IF gv.err # ""
           THEN pc' = "raised" /\ ret' = gv /\ UNCHANGED <<self, loc, call>>
           ELSE /\ self' = [self EXCEPT !.gt[loc.i][loc.j][loc.k] = gv.val]
                /\ IF NextGt(loc.i, loc.j, loc.k).i < self.dim
                   THEN pc' = pc /\ loc' = NextGt(loc.i, loc.j, loc.k)
                        /\ UNCHANGED <<call, ret>>
                   ELSE loc' = loc /\ Constructed

----------------------------------------------------------------------------
\* Calls on the constructed object

\* index arguments: those of the space and those up to MaxOver outside it
AnyIndex == (0 - MaxOver)..((IF size > 0 THEN size ELSE 0) - 1 + MaxOver)

\* tuple arguments of length dim
Tuples == [0..(self.dim - 1) -> 1..MaxB]

IntTuples == [0..(self.dim - 1) -> (0 - 1)..(MaxB + 1)]

Returns(c, r) ==
    /\ pc = "ready"
    /\ pc' = "returned"
    /\ call' = c
    /\ ret' = r
    /\ UNCHANGED <<self, loc>>

Size == Returns([op |-> "size"], Ok(size))

Len == Returns([op |-> "__len__"], __len__)

Rank(T) == \E x \in T : Returns([op |-> "rank", x |-> x], rank(x))

Rev(I) == \E x \in I : Returns([op |-> "rev", x |-> x], rev(x))

Get(I) == \E index \in I : Returns([op |-> "get", x |-> index], get(index))

Contains(I) == \E i \in I : Returns([op |-> "__contains__", x |-> i], __contains__(i))

Iter == Returns([op |-> "__iter__"], __iter__)

\* the caller takes the result
Return ==
    /\ pc = "returned"
    /\ pc' = "ready"
    /\ call' = NoCall
    /\ ret' = NoRet
    /\ UNCHANGED <<self, loc>>

Next ==
    \/ Enum \/ Alloc \/ FtStep \/ GtStep
    \/ Size \/ Len \/ Iter \/ Return
    \/ Rank(Tuples) \/ Rev(AnyIndex) \/ Get(AnyIndex) \/ Contains(AnyIndex)

NextInt ==
    \/ Enum \/ Alloc \/ FtStep \/ GtStep
    \/ Size \/ Len \/ Iter \/ Return
    \/ Rank(IntTuples) \/ Rev(AnyIndex) \/ Get(AnyIndex) \/ Contains(AnyIndex)

\* spaces built from n >= 1 and bounds >= 1; tuple components >= 1
Spec == Init /\ [][Next]_vars

\* spaces built from any integer budget and bounds; any tuple components
SpecInt == InitInt /\ [][NextInt]_vars

----------------------------------------------------------------------------
\* What the properties speak of

\* the object is constructed and no call is running: self is as __init__ left it
\* (no method assigns a field)
Built == pc = "ready"

\* the indices of the space
InRange == 0..(size - 1)

\* the space was built from a budget >= 1 and bounds all >= 1
Legit == self.n >= 1 /\ \A i \in 0..(self.dim - 1) : self.b[i] >= 1

Returned(op) == pc = "returned" /\ call.op = op

RECURSIVE Remaining(_, _)

\* the budget left at dimension i of tuple t: n at dim - 1, then floor-divided
\* by each component above i
Remaining(t, i) ==
    IF i >= self.dim - 1 THEN self.n
    ELSE IF Remaining(t, i + 1) < 1 \/ t[i + 1] < 1 THEN 0
    ELSE Remaining(t, i + 1) \div t[i + 1]

\* the nesting rule
Legal(t) ==
    \A i \in 0..(self.dim - 1) :
        /\ 1 <= t[i]
        /\ t[i] <= self.b[i]
        /\ t[i] <= Remaining(t, i)

LegalTuples == {t \in [0..(self.dim - 1) -> 1..(MaxB + 1)] : Legal(t)}

Elements(xs) == {xs[p] : p \in DOMAIN xs}

\* s comes before t when the last dimension is compared first
Precedes(s, t) ==
    \E i \in 0..(self.dim - 1) :
        /\ s[i] < t[i]
        /\ \A j \in (i + 1)..(self.dim - 1) : s[j] = t[j]

\* the values N // i for i in 1..N
Reachable == {self.n \div i : i \in 1..self.n}

----------------------------------------------------------------------------
\* C1: on a space built from n >= 1 and bounds >= 1, rank(rev(index)) = index
\* for every index in [0, size), and rev(rank(t)) = t for every legal tuple t.
RoundTrip ==
    /\ (Returned("rev") /\ Legit /\ call.x \in InRange)
          => (ret.err = "" /\ rank(ret.val) = Ok(call.x))
    /\ (Returned("rank") /\ Legit /\ Legal(call.x))
          => (ret.err = "" /\ rev(ret.val) = Ok(call.x))

RoundTripWitness ==
    /\ Returned("rank") /\ Legit /\ Legal(call.x)
    /\ self.dim = 3 /\ ret.err = "" /\ ret.val >= 5
    /\ rev(ret.val) = Ok(call.x)

\* C2: the tuples rev(i), i in [0, size), are pairwise distinct and are exactly
\* the legal tuples; get(index) carries its index and a legal tuple.
Bijection ==
    /\ (Returned("__iter__") /\ Legit)
          => /\ ret.err = ""
             /\ len(ret.val) = size
             /\ Elements(ret.val) = LegalTuples
             /\ Cardinality(Elements(ret.val)) = len(ret.val)
    /\ (Returned("rev") /\ Legit /\ call.x \in InRange)
          => (ret.err = "" /\ Legal(ret.val))
    /\ (Returned("get") /\ Legit /\ call.x \in InRange)
          => (ret.err = "" /\ ret.val.index = call.x /\ Legal(ret.val.tile))

BijectionWitness ==
    /\ Returned("__iter__") /\ Legit
    /\ self.dim = 3 /\ len(ret.val) >= 8
    /\ Elements(ret.val) = LegalTuples

\* C3: size() is the brute-force count bf(dim - 1, n), and f(k, v) = bf(k, v)
\* for every dimension k and every reachable budget v.
CardinalityOracle ==
    /\ (Returned("size") /\ Legit) => ret.val = bf(self.dim - 1, self.n)
    /\ (Built /\ Legit)
          => \A k \in 0..(self.dim - 1) : \A v \in Reachable : f(k, v) = bf(k, v)

CardinalityOracleWitness ==
    /\ Returned("size") /\ Legit
    /\ self.dim = 3 /\ self.n = MaxN /\ ret.val >= 10
    /\ \E i \in 0..(self.dim - 1) : self.b[i] < self.n
    /\ ret.val = bf(self.dim - 1, self.n)

\* C4: for any integer budget and bounds, size() >= 0, and size() = 0 exactly
\* when the budget is below 1 or some bound is below 1.
SizeNonNegative ==
    Returned("size")
       => /\ ret.val >= 0
          /\ (ret.val = 0 <=> ~Legit)

\* C5: rev(index) and get(index) with an index outside [0, size()) signal an
\* error and return no tuple or Point.
OutOfRangeRaises ==
    ((Returned("rev") \/ Returned("get")) /\ call.x \notin InRange)
       => ret.err # ""

\* C6: rank(t) with a tuple of length dim that breaks a per-dimension bound or
\* the nesting rule signals an error and returns no index.
IllegalTupleRaises ==
    (Returned("rank") /\ len(call.x) = self.dim /\ ~Legal(call.x))
       => ret.err # ""

\* C7: rev enumerates the tuples in the order that compares the last dimension
\* first: for indices i < j in [0, size), rev(i) precedes rev(j); rev(0) is the
\* tuple of ones.
ColexOrder ==
    /\ (Returned("__iter__") /\ Legit)
          => /\ ret.err = ""
             /\ \A p \in DOMAIN ret.val : \A q \in DOMAIN ret.val :
                   p < q => Precedes(ret.val[p], ret.val[q])
    /\ (Returned("rev") /\ Legit /\ call.x = 0)
          => (ret.err = "" /\ \A i \in 0..(self.dim - 1) : ret.val[i] = 1)

ColexOrderWitness ==
    /\ Returned("__iter__") /\ Legit
    /\ self.dim = 3 /\ len(ret.val) >= 8
    /\ \A p \in DOMAIN ret.val : \A q \in DOMAIN ret.val :
          p < q => Precedes(ret.val[p], ret.val[q])

\* C8: on a space built from n >= 1 and bounds >= 1 the assertion of g, and
\* the table lookups by n and by the block start q, never fail: not while
\* the tables are built, not in rev(index) for index in [0, size), not in
\* rank(t) for a legal t; the keys of ra are the values n // i, 1 <= i <= n.
AssertionHolds ==
    Legit =>
       /\ pc # "raised"
       /\ Built => DOMAIN self.ra = Reachable
       /\ (Returned("rev") /\ call.x \in InRange) => ret.err = ""
       /\ (Returned("rank") /\ Legal(call.x)) => ret.err = ""

AssertionHoldsWitness ==
    /\ Returned("rev") /\ Legit /\ call.x \in InRange
    /\ self.dim = 3 /\ self.n = MaxN
    /\ ret.err = "" /\ ret.val[2] >= 2 /\ ret.val[1] >= 2

\* the arguments x over which the prefix counts are compared
PrefixArgs == 0..(self.n + MaxOver)

\* C9: for every dimension k and every reachable budget v, the prefix count
\* g(k, v, x) is non-decreasing in x, x >= 0.
Monotone ==
    (Built /\ Legit)
       => \A k \in 0..(self.dim - 1) : \A v \in Reachable : \A x \in PrefixArgs :
             /\ g(k, v, x).err = ""
             /\ g(k, v, x + 1).err = ""
             /\ g(k, v, x).val <= g(k, v, x + 1).val

MonotoneWitness ==
    /\ Built /\ Legit /\ self.dim = 3 /\ self.n = MaxN
    /\ g(2, self.n, 1).val < g(2, self.n, 2).val
    /\ g(2, self.n, self.n).val = g(2, self.n, self.n + 1).val

Sum(xs) ==
    LET S[p \in 0..len(xs)] == IF p = 0 THEN 0 ELSE S[p - 1] + xs[p - 1]
    IN  S[len(xs)]

\* C10: after construction with n >= 1, a is strictly ascending and holds
\* exactly the values n // i, 1 <= i <= n; l[j] is the number of i in 1..n
\* with n // i = a[j], so the l[j] add up to n; ra maps a[j] to j.
Enumerated ==
    (Built /\ self.n >= 1)
       => /\ len(self.a) = self.m /\ len(self.l) = self.m
          /\ \A p \in 0..(self.m - 2) : self.a[p] < self.a[p + 1]
          /\ Elements(self.a) = Reachable
          /\ \A p \in 0..(self.m - 1) :
                self.l[p] = Cardinality({i \in 1..self.n : self.n \div i = self.a[p]})
          /\ Sum(self.l) = self.n
          /\ DOMAIN self.ra = Elements(self.a)
          /\ \A p \in 0..(self.m - 1) : self.ra[self.a[p]] = p

EnumeratedWitness ==
    /\ pc = "ready" /\ self.n = MaxN /\ self.m >= 4
    /\ Elements(self.a) = Reachable
    /\ \E p \in 0..(self.m - 1) : self.l[p] >= 2

====
